---- MODULE Spec2Model ----
(***************************************************************************)
(* Library seat detection: the per-seat occupancy state machine            *)
(* (src/seat.py, class Seat) and the frame loop that drives it              *)
(* (src/seat_detection.py, main).                                           *)
(*                                                                         *)
(* A Seat is a record holding the fields of the Python object.  Its        *)
(* methods are operators from a seat record (and the call's arguments) to  *)
(* the seat record after the call.  A rectangle is <<x0, y0, x1, y1>>.     *)
(* A seat image is abstracted to what the background subtractor makes of   *)
(* its tabletop part: the set of the pixel areas of the foreground blobs.  *)
(***************************************************************************)
EXTENDS Integers, Sequences, FiniteSets

VARIABLES
    seats,      \* main's list `seats`: a sequence of Seat records
    called,     \* per seat, the Seat methods called on it in the latest step
    frame,      \* the detections and seat images of the latest processed frame
    nframes,    \* the number of frames main has processed
    run         \* observer: consecutive calls of one kind since a noted state

vars == <<seats, called, frame, nframes, run>>

----------------------------------------------------------------------------
(* Program constants *)

MAX_SKIP_FRAMES == 30
MAX_EMPTY_FRAMES == 100
TRANSITION_FRAMES_THRESHOLD == 100
CONTOUR_AREA_THRESHOLD == 2500
\* the literal handed to get_leftover_object_mask by check_leftover_obj
LEFTOVER_MASK_MIN_AREA == 2000
\* CONTOUR_AREA_THRESHOLD*1.5, the threshold argument of the EMPTY branch
CONTOUR_AREA_THRESHOLD_EMPTY == (CONTOUR_AREA_THRESHOLD * 3) \div 2
\* SEAT_OVERLAP_THRESHOLD = 0.3, kept as the fraction 3/10
SEAT_OVERLAP_THRESHOLD_NUM == 3
SEAT_OVERLAP_THRESHOLD_DEN == 10
\* OBJ_DETECTION_THRESHOLD = 0.7, with scores kept in hundredths
OBJ_DETECTION_THRESHOLD == 70
\* the detector's class ids of "person" and "chair"
PERSON_CLASS == 1
CHAIR_CLASS == 62
\* the factor 0.7 of the chair test, kept as the fraction 7/10
CHAIR_OVERLAP_NUM == 7
CHAIR_OVERLAP_DEN == 10

SeatStatus == {"EMPTY", "ON_HOLD", "OCCUPIED"}
None == <<>>

----------------------------------------------------------------------------
(* seat_utils: geometry helpers *)

Max(a, b) == IF a >= b THEN a ELSE b
Min(a, b) == IF a <= b THEN a ELSE b

rectangle_area(r) == Max(0, r[3] - r[1]) * Max(0, r[4] - r[2])

rectangle_overlap(a, b) ==
    Max(0, Min(a[3], b[3]) - Max(a[1], b[1]))
  * Max(0, Min(a[4], b[4]) - Max(a[2], b[2]))

\* overlap / area as a fraction; GreaterThan compares it with num/den
calculate_overlap_percentage(a, b, area) ==
    [num |-> rectangle_overlap(a, b), den |-> area]

GreaterThan(q, num, den) == q.num * den > num * q.den

----------------------------------------------------------------------------
(* background_subtractor.BackgroundSubtractorMOG2, as the Seat uses it.    *)
(* The subtractor is a collaborator: the seat record keeps, in             *)
(* bg_subtractor, the calls the subtractor received during the latest      *)
(* Seat method call.                                                       *)

\* blobs of the foreground mask: the image is already given as blob areas
get_foreground(table_img) == table_img

\* blobs whose pixel area is below min_area are zeroed
get_leftover_object_mask(foreground, min_area) ==
    {a \in foreground : a >= min_area}

\* numpy's mask.any()
any(mask) == mask # {}

----------------------------------------------------------------------------
(* class Seat *)

\* the crop of Seat.__init__ and Seat.update_chair_bb
CropToSeat(seat_bb, bb) ==
    LET x0 == Max(seat_bb[1], bb[1])
        y0 == Max(seat_bb[2], bb[2])
        width == Min(seat_bb[3], bb[3]) - x0
        height == Min(seat_bb[4], bb[4]) - y0
        lx0 == x0 - seat_bb[1]
        ly0 == y0 - seat_bb[2]
    IN  <<lx0, ly0, lx0 + width, ly0 + height>>

SeatInit(bb_coordinates, table_bb) ==
    [ status |-> "EMPTY",
      bb_coordinates |-> bb_coordinates,
      bb_area |-> rectangle_area(bb_coordinates),
      table_bb |-> CropToSeat(bb_coordinates, table_bb),
      person_in_frame_counter |-> 0,
      empty_seat_counter |-> 0,
      object_in_frame_counter |-> 0,
      skip_counter |-> 0,
      empty_chair_bb |-> None,
      current_chair_bb |-> None,
      bg_subtractor |-> <<>> ]

\* the number of indices of the slice [a:b] of an axis of length n: a
\* negative bound counts from the end, and both bounds are clipped to 0 .. n
SliceBound(a, n) == IF a < 0 THEN Max(0, a + n) ELSE Min(a, n)
SliceLength(a, b, n) == Max(0, SliceBound(b, n) - SliceBound(a, n))

\* seat_img[y0:y1, x0:x1], seat_img being the frame cropped to the seat's
\* bounding box: an empty slice holds no blob
get_table_image(s, seat_img) ==
    LET seat_width == Max(0, s.bb_coordinates[3] - s.bb_coordinates[1])
        seat_height == Max(0, s.bb_coordinates[4] - s.bb_coordinates[2])
    IN  IF /\ SliceLength(s.table_bb[1], s.table_bb[3], seat_width) > 0
           /\ SliceLength(s.table_bb[2], s.table_bb[4], seat_height) > 0
        THEN seat_img
        ELSE {}

become_occupied(s) ==
    [s EXCEPT !.person_in_frame_counter = MAX_EMPTY_FRAMES,
              !.skip_counter = 0,
              !.object_in_frame_counter = 0,
              !.status = "OCCUPIED"]

\* mutant: going EMPTY leaves the skip counter as it is
become_empty_keep_skip(s) ==
    [s EXCEPT !.object_in_frame_counter = 0,
              !.status = "EMPTY"]

become_empty(s) ==
    [s EXCEPT !.skip_counter = 0,
              !.object_in_frame_counter = 0,
              !.status = "EMPTY"]

\* mutant: going ON_HOLD resets every counter
become_on_hold_reset_counters(s) ==
    [s EXCEPT !.person_in_frame_counter = 0,
              !.object_in_frame_counter = 0,
              !.status = "ON_HOLD"]

become_on_hold(s) ==
    [s EXCEPT !.object_in_frame_counter = 0,
              !.status = "ON_HOLD"]

\* a Seat method starts with no call made on the subtractor yet
Enter(s) == [s EXCEPT !.bg_subtractor = <<>>]

\* mutant: the EMPTY branch tests the counter before adding to it
person_detected_empty_test_first(s) ==
    IF s.person_in_frame_counter = TRANSITION_FRAMES_THRESHOLD
    THEN become_occupied(s)
    ELSE [s EXCEPT !.person_in_frame_counter = @ + 1]

person_detected_empty(s) ==
    LET t == [s EXCEPT !.person_in_frame_counter = @ + 1]
    IN  IF t.person_in_frame_counter = TRANSITION_FRAMES_THRESHOLD
        THEN become_occupied(t)
        ELSE t

\* mutant: the ON_HOLD branch adds to the counter before testing it
person_detected_on_hold_count_first(s) ==
    LET t == [s EXCEPT !.person_in_frame_counter = @ + 1]
    IN  IF t.person_in_frame_counter = TRANSITION_FRAMES_THRESHOLD
        THEN become_occupied(t)
        ELSE t

\* mutant: the ON_HOLD branch goes OCCUPIED only past the threshold
person_detected_on_hold_test_above(s) ==
    IF s.person_in_frame_counter > TRANSITION_FRAMES_THRESHOLD
    THEN become_occupied(s)
    ELSE [s EXCEPT !.person_in_frame_counter = @ + 1]

person_detected_on_hold(s) ==
    IF s.person_in_frame_counter = TRANSITION_FRAMES_THRESHOLD
    THEN become_occupied(s)
    ELSE [s EXCEPT !.person_in_frame_counter = @ + 1]

\* mutant: the OCCUPIED branch counts the call instead of clamping
person_detected_occupied_count_up(s) ==
    [s EXCEPT !.person_in_frame_counter = @ + 1]

person_detected_occupied(s) ==
    IF s.person_in_frame_counter < MAX_EMPTY_FRAMES
    THEN [s EXCEPT !.person_in_frame_counter = MAX_EMPTY_FRAMES]
    ELSE s

person_detected(s0) ==
    LET s == [Enter(s0) EXCEPT !.skip_counter = 0]
    IN  IF s.status = "EMPTY" THEN person_detected_empty(s)
        ELSE IF s.status = "ON_HOLD" THEN person_detected_on_hold(s)
        ELSE person_detected_occupied(s)

\* the minimum blob area check_leftover_obj hands to the mask extraction:
\* the literal, whatever the threshold argument
leftover_min_area(threshold) == LEFTOVER_MASK_MIN_AREA

\* check_leftover_obj(...).any(), and the seat after the call: the
\* subtractor has received get_foreground and get_leftover_object_mask
check_leftover_obj(s, seat_img, threshold) ==
    LET table_img == get_table_image(s, seat_img)
        foreground == get_foreground(table_img)
        min_area == leftover_min_area(threshold)
        mask == get_leftover_object_mask(foreground, min_area)
    IN  [ found |-> any(mask),
          seat |-> [s EXCEPT !.bg_subtractor = @ \o
                      << [fn |-> "get_foreground", img |-> table_img],
                         [fn |-> "get_leftover_object_mask",
                          img |-> foreground, status |-> s.status,
                          threshold |-> threshold, min_area |-> min_area,
                          found |-> any(mask)] >>] ]

update_background(s, seat_img) ==
    [s EXCEPT !.bg_subtractor = @ \o
        << [fn |-> "apply", img |-> get_table_image(s, seat_img)] >>]

\* mutant: the OCCUPIED branch tests the counter before lowering it
no_person_detected_occupied_test_first(s, seat_img) ==
    LET c == check_leftover_obj(s, seat_img, CONTOUR_AREA_THRESHOLD)
    IN  IF ~c.found
        THEN IF c.seat.person_in_frame_counter = 0
             THEN become_empty(c.seat)
             ELSE [c.seat EXCEPT !.person_in_frame_counter = @ - 1]
        ELSE become_on_hold(c.seat)

no_person_detected_occupied(s, seat_img) ==
    LET c == check_leftover_obj(s, seat_img, CONTOUR_AREA_THRESHOLD)
    IN  IF ~c.found
        THEN LET t == [c.seat EXCEPT !.person_in_frame_counter = @ - 1]
             IN  IF t.person_in_frame_counter = 0
                 THEN become_empty(t)
                 ELSE t
        ELSE become_on_hold(c.seat)

\* mutant: the ON_HOLD branch lowers the counter without the test > 0
no_person_detected_on_hold_unguarded(s, seat_img) ==
    LET c == check_leftover_obj(s, seat_img, CONTOUR_AREA_THRESHOLD)
        t == [c.seat EXCEPT !.person_in_frame_counter = @ - 1]
    IN  IF ~c.found
        THEN IF t.person_in_frame_counter = 0
             THEN become_empty(t)
             ELSE t
        ELSE t

\* mutant: the ON_HOLD branch goes EMPTY at counter 0 whatever the check found
no_person_detected_on_hold_ignore_object(s, seat_img) ==
    LET c == check_leftover_obj(s, seat_img, CONTOUR_AREA_THRESHOLD)
        t == IF c.seat.person_in_frame_counter > 0
             THEN [c.seat EXCEPT !.person_in_frame_counter = @ - 1]
             ELSE c.seat
    IN  IF t.person_in_frame_counter = 0
        THEN become_empty(t)
        ELSE t

\* mutant: the ON_HOLD branch tests the counter before lowering it
no_person_detected_on_hold_test_first(s, seat_img) ==
    LET c == check_leftover_obj(s, seat_img, CONTOUR_AREA_THRESHOLD)
    IN  IF ~c.found /\ c.seat.person_in_frame_counter = 0
        THEN become_empty(c.seat)
        ELSE IF c.seat.person_in_frame_counter > 0
        THEN [c.seat EXCEPT !.person_in_frame_counter = @ - 1]
        ELSE c.seat

no_person_detected_on_hold(s, seat_img) ==
    LET c == check_leftover_obj(s, seat_img, CONTOUR_AREA_THRESHOLD)
        t == IF c.seat.person_in_frame_counter > 0
             THEN [c.seat EXCEPT !.person_in_frame_counter = @ - 1]
             ELSE c.seat
    IN  IF ~c.found
        THEN IF t.person_in_frame_counter = 0
             THEN become_empty(t)
             ELSE t
        ELSE t

\* mutant: the object counter is compared with MAX_SKIP_FRAMES
no_person_detected_empty_check_skip_limit(s, seat_img) ==
    LET c == check_leftover_obj(s, seat_img, CONTOUR_AREA_THRESHOLD_EMPTY)
    IN  IF ~c.found
        THEN LET u == update_background(c.seat, seat_img)
             IN  IF u.object_in_frame_counter > 0
                 THEN [u EXCEPT !.object_in_frame_counter = 0]
                 ELSE u
        ELSE LET t == [c.seat EXCEPT !.object_in_frame_counter = @ + 1]
             IN  IF t.object_in_frame_counter = MAX_SKIP_FRAMES
                 THEN [become_on_hold(t) EXCEPT !.object_in_frame_counter = 0]
                 ELSE t

\* mutant: a check that finds nothing leaves the object counter as it is
no_person_detected_empty_check_no_reset(s, seat_img) ==
    LET c == check_leftover_obj(s, seat_img, CONTOUR_AREA_THRESHOLD_EMPTY)
    IN  IF ~c.found
        THEN update_background(c.seat, seat_img)
        ELSE LET t == [c.seat EXCEPT !.object_in_frame_counter = @ + 1]
             IN  IF t.object_in_frame_counter = TRANSITION_FRAMES_THRESHOLD
                 THEN [become_on_hold(t) EXCEPT !.object_in_frame_counter = 0]
                 ELSE t

no_person_detected_empty_check(s, seat_img) ==
    LET c == check_leftover_obj(s, seat_img, CONTOUR_AREA_THRESHOLD_EMPTY)
    IN  IF ~c.found
        THEN LET u == update_background(c.seat, seat_img)
             IN  IF u.object_in_frame_counter > 0
                 THEN [u EXCEPT !.object_in_frame_counter = 0]
                 ELSE u
        ELSE LET t == [c.seat EXCEPT !.object_in_frame_counter = @ + 1]
             IN  IF t.object_in_frame_counter = TRANSITION_FRAMES_THRESHOLD
                 THEN [become_on_hold(t) EXCEPT !.object_in_frame_counter = 0]
                 ELSE t

\* mutant: the EMPTY branch without the branch that lowers the person counter
no_person_detected_empty_no_decay(s, seat_img) ==
    IF s.skip_counter < MAX_SKIP_FRAMES
    THEN [s EXCEPT !.skip_counter = @ + 1]
    ELSE no_person_detected_empty_check(s, seat_img)

\* mutant: the EMPTY branch lowers the person counter before the debounce
no_person_detected_empty_decay_first(s, seat_img) ==
    IF s.person_in_frame_counter > 0
    THEN [s EXCEPT !.person_in_frame_counter = @ - 1]
    ELSE IF s.skip_counter < MAX_SKIP_FRAMES
    THEN [s EXCEPT !.skip_counter = @ + 1]
    ELSE no_person_detected_empty_check(s, seat_img)

no_person_detected_empty(s, seat_img) ==
    IF s.skip_counter < MAX_SKIP_FRAMES
    THEN [s EXCEPT !.skip_counter = @ + 1]
    ELSE IF s.person_in_frame_counter > 0
    THEN [s EXCEPT !.person_in_frame_counter = @ - 1]
    ELSE no_person_detected_empty_check(s, seat_img)

no_person_detected(s0, seat_img) ==
    LET s == Enter(s0)
    IN  IF s.status = "OCCUPIED" THEN no_person_detected_occupied(s, seat_img)
        ELSE IF s.status = "ON_HOLD" THEN no_person_detected_on_hold(s, seat_img)
        ELSE no_person_detected_empty(s, seat_img)

\* mutant: the box is kept as the empty-seat chair box in every status
update_chair_bb_any_status(s0, bbox) ==
    LET s == Enter(s0)
        b == CropToSeat(s.bb_coordinates, bbox)
    IN  [s EXCEPT !.current_chair_bb = b, !.empty_chair_bb = b]

update_chair_bb(s0, bbox) ==
    LET s == Enter(s0)
        b == CropToSeat(s.bb_coordinates, bbox)
        t == [s EXCEPT !.current_chair_bb = b]
    IN  IF t.status = "EMPTY"
        THEN [t EXCEPT !.empty_chair_bb = b]
        ELSE t

----------------------------------------------------------------------------
(* What the latest Seat method call did to the subtractor *)

\* the latest method call made a get_leftover_object_mask call / one that
\* left a blob in the mask
Checked(s) ==
    \E k \in DOMAIN s.bg_subtractor :
        s.bg_subtractor[k].fn = "get_leftover_object_mask"
Found(s) ==
    \E k \in DOMAIN s.bg_subtractor :
        /\ s.bg_subtractor[k].fn = "get_leftover_object_mask"
        /\ s.bg_subtractor[k].found
BackgroundUpdated(s) ==
    \E k \in DOMAIN s.bg_subtractor : s.bg_subtractor[k].fn = "apply"

----------------------------------------------------------------------------
(* Inputs *)

\* seat geometry of the Seat-level specification: table first, then the seat
TableBB == <<0, 0, 200, 50>>
SeatBB == <<0, 0, 100, 100>>

\* tabletop images: no blob, or one blob of the given area
Images == {{}, {1999}, {2000}, {2500}, {3750}}

\* the tabletops seen in the video
FrameImages == {{}, {3750}}

\* chair boxes handed to update_chair_bb
ChairBoxes == {<<10, 60, 60, 120>>}

NoFrame == [boxes |-> <<>>, imgs |-> <<>>]

----------------------------------------------------------------------------
(* The observer of runs of consecutive calls.  At a call made in a state   *)
(* a run may start from, the observer may note the counters of that state  *)
(* (run.from) and then counts the consecutive calls of the same kind       *)
(* (run.n).  update_chair_bb calls do not interrupt a run: in main they    *)
(* come between the person calls of two frames.                            *)

Snapshot(s) ==
    [ status |-> s.status,
      person_in_frame_counter |-> s.person_in_frame_counter,
      skip_counter |-> s.skip_counter,
      object_in_frame_counter |-> s.object_in_frame_counter ]

NoRun == [kind |-> "none", n |-> 0, from |-> Snapshot(SeatInit(SeatBB, TableBB))]

\* whether the call fn that led to the seat post belongs to a run of kind
InKind(kind, post, fn) ==
    CASE kind = "person_seen" -> fn = "person_detected"
      [] kind = "person_absent" -> fn = "no_person_detected"
      [] kind = "absent_object" ->
            fn = "no_person_detected" /\ Checked(post) /\ Found(post)
      [] kind = "absent_no_object" ->
            fn = "no_person_detected" /\ Checked(post) /\ ~Found(post)
      [] OTHER -> FALSE

RunKinds == {"person_seen", "person_absent", "absent_object", "absent_no_object"}

RunLength(kind) ==
    IF kind = "person_absent" THEN MAX_SKIP_FRAMES ELSE TRANSITION_FRAMES_THRESHOLD

\* the states a run of the kind is observed from
RunStart(pre, kind) ==
    CASE kind = "person_seen" ->
            /\ pre.status = "EMPTY"
            /\ pre.person_in_frame_counter = 0
            /\ pre.skip_counter = 0
            /\ pre.object_in_frame_counter = 0
      [] kind = "person_absent" ->
            pre.status = "EMPTY" /\ pre.skip_counter = 0
      [] kind = "absent_object" ->
            pre.status = "EMPTY" /\ pre.skip_counter = MAX_SKIP_FRAMES
      [] kind = "absent_no_object" ->
            pre.status = "OCCUPIED"
      [] OTHER -> FALSE

Extends(post, fn) ==
    /\ run.kind # "none"
    /\ run.n < RunLength(run.kind)
    /\ InKind(run.kind, post, fn)

Starts(pre, post, fn, kind) == RunStart(pre, kind) /\ InKind(kind, post, fn)

\* the observer's step at a person_detected or no_person_detected call: the
\* run goes on, or a run is noted from the state of the call, or, when
\* neither can be, nothing is observed
Observe(pre, post, fn) ==
    \/ Extends(post, fn) /\ run' = [run EXCEPT !.n = @ + 1]
    \/ \E kind \in RunKinds :
          /\ Starts(pre, post, fn, kind)
          /\ run' = [kind |-> kind, n |-> 1, from |-> Snapshot(pre)]
    \/ /\ ~Extends(post, fn)
       /\ \A kind \in RunKinds : ~Starts(pre, post, fn, kind)
       /\ run' = NoRun

----------------------------------------------------------------------------
(* The Seat driven method by method: any sequence of calls of              *)
(* person_detected, no_person_detected and update_chair_bb on one seat.    *)

Init ==
    /\ seats = << SeatInit(SeatBB, TableBB) >>
    /\ called = << <<>> >>
    /\ frame = NoFrame
    /\ nframes = 0
    /\ run = NoRun

DoPersonDetected(i) ==
    /\ seats' = [seats EXCEPT ![i] = person_detected(seats[i])]
    /\ called' = [called EXCEPT ![i] = << [fn |-> "person_detected", arg |-> None] >>]
    /\ UNCHANGED <<frame, nframes>>

DoNoPersonDetected(i, seat_img) ==
    /\ seats' = [seats EXCEPT ![i] = no_person_detected(seats[i], seat_img)]
    /\ called' = [called EXCEPT ![i] = << [fn |-> "no_person_detected", arg |-> None] >>]
    /\ UNCHANGED <<frame, nframes>>

DoUpdateChairBB(i, bbox) ==
    /\ seats' = [seats EXCEPT ![i] = update_chair_bb(seats[i], bbox)]
    /\ called' = [called EXCEPT ![i] = << [fn |-> "update_chair_bb", arg |-> bbox] >>]
    /\ UNCHANGED <<frame, nframes>>

CallPersonDetected(i) == DoPersonDetected(i) /\ UNCHANGED run
CallNoPersonDetected(i, seat_img) == DoNoPersonDetected(i, seat_img) /\ UNCHANGED run
CallUpdateChairBB(i, bbox) == DoUpdateChairBB(i, bbox) /\ UNCHANGED run

Next ==
    \E i \in DOMAIN seats :
        \/ CallPersonDetected(i)
        \/ \E seat_img \in Images : CallNoPersonDetected(i, seat_img)
        \/ \E bbox \in ChairBoxes : CallUpdateChairBB(i, bbox)

Spec == Init /\ [][Next]_vars

----------------------------------------------------------------------------
(* The person calls of one seat, frame after frame, with the observer of   *)
(* runs: the sequences of person_detected and no_person_detected calls.    *)

SeenObserved(i) ==
    /\ DoPersonDetected(i)
    /\ Observe(seats[i], seats'[i], "person_detected")

AbsentObserved(i, seat_img) ==
    /\ DoNoPersonDetected(i, seat_img)
    /\ Observe(seats[i], seats'[i], "no_person_detected")

NextRuns ==
    \E i \in DOMAIN seats :
        \/ SeenObserved(i)
        \/ \E seat_img \in Images : AbsentObserved(i, seat_img)

SpecRuns == Init /\ [][NextRuns]_vars

----------------------------------------------------------------------------
(* The person calls of one seat with the observer of streaks: run.kind is  *)
(* the kind of the latest call, run.n the number of latest calls in a row  *)
(* of that kind (counted up to MaxStreak), run.checks the number of        *)
(* leftover checks in a row, up to the latest, that reported an object in  *)
(* the seat's present time of being EMPTY.                                 *)

\* streaks are counted up to this length
MaxStreak == 131

NoStreak == [kind |-> "none", n |-> 0, checks |-> 0]

\* person_seen: a person_detected call; absent_clear: a no_person_detected
\* call in which no leftover object was reported
StreakKind(post, fn) ==
    IF fn = "person_detected" THEN "person_seen"
    ELSE IF ~Found(post) THEN "absent_clear"
    ELSE "none"

Track(pre, post, fn) ==
    LET kind == StreakKind(post, fn)
    IN  run' = [ kind |-> kind,
                 n |-> IF kind = "none" THEN 0
                       ELSE IF kind = run.kind THEN Min(run.n + 1, MaxStreak)
                       ELSE 1,
                 checks |-> IF pre.status # "EMPTY" THEN 0
                            ELSE IF ~Checked(post) THEN run.checks
                            ELSE IF Found(post) THEN run.checks + 1
                            ELSE 0 ]

InitStreaks ==
    /\ seats = << SeatInit(SeatBB, TableBB) >>
    /\ called = << <<>> >>
    /\ frame = NoFrame
    /\ nframes = 0
    /\ run = NoStreak

SeenTracked(i) ==
    /\ DoPersonDetected(i)
    /\ Track(seats[i], seats'[i], "person_detected")

AbsentTracked(i, seat_img) ==
    /\ DoNoPersonDetected(i, seat_img)
    /\ Track(seats[i], seats'[i], "no_person_detected")

NextStreaks ==
    \E i \in DOMAIN seats :
        \/ SeenTracked(i)
        \/ \E seat_img \in FrameImages : AbsentTracked(i, seat_img)

SpecStreaks == InitStreaks /\ [][NextStreaks]_vars

----------------------------------------------------------------------------
(* main: the frame loop.  A frame is the detector's output, a sequence of  *)
(* detections [box, score, class] with box = <<y0, x0, y1, x1>>, and per   *)
(* seat the blobs of its tabletop.                                         *)

\* the boxes of the detections of class cls above the score threshold, as
\* (box[1], box[0], box[3], box[2])
DetectedBoundingBoxes(boxes, cls) ==
    LET Keep(d) == d.class = cls /\ d.score > OBJ_DETECTION_THRESHOLD
        kept == SelectSeq(boxes, Keep)
    IN  [k \in DOMAIN kept |->
            <<kept[k].box[2], kept[k].box[1], kept[k].box[4], kept[k].box[3]>>]

\* mutant: an overlap of exactly the threshold counts
PersonDetectedInSeat_at_least(s, persons) ==
    \E k \in DOMAIN persons :
        ~GreaterThan([num |-> SEAT_OVERLAP_THRESHOLD_NUM, den |-> SEAT_OVERLAP_THRESHOLD_DEN],
                     rectangle_overlap(s.bb_coordinates, persons[k]), s.bb_area)

\* the loop over the person boxes, left at the first box with enough overlap
PersonDetectedInSeat(s, persons) ==
    \E k \in DOMAIN persons :
        GreaterThan(calculate_overlap_percentage(s.bb_coordinates, persons[k], s.bb_area),
                    SEAT_OVERLAP_THRESHOLD_NUM, SEAT_OVERLAP_THRESHOLD_DEN)

\* the power of two p with p < n <= 2p, searched from p on
RECURSIVE BinadeBelow(_, _)
BinadeBelow(n, p) == IF 2 * p < n THEN BinadeBelow(n, 2 * p) ELSE p

\* area*0.7 is a product of doubles.  The double 0.7 is 0.7 - (2/5)/2^53, so
\* when 7/10 of the area is the whole number n the exact product is
\* n - (4n/7)/2^53; it is rounded to the double next below n when that is
\* nearer than n, the doubles below n being 2p/2^53 apart, and to n otherwise
\* (at equal distance too: n is the even one)
ProductRoundsBelow(n) == 4 * n > 7 * BinadeBelow(n, 1)

\* overlap_area > rectangle_area(chair_bb)*0.7
ChairInSeat(s, chair_bb) ==
    LET overlap_area == rectangle_overlap(s.bb_coordinates, chair_bb)
        area == rectangle_area(chair_bb)
    IN  \/ overlap_area * CHAIR_OVERLAP_DEN > area * CHAIR_OVERLAP_NUM
        \/ /\ overlap_area * CHAIR_OVERLAP_DEN = area * CHAIR_OVERLAP_NUM
           /\ overlap_area > 0
           /\ ProductRoundsBelow(overlap_area)

\* the loop over the chair boxes from the k-th on: the seat after it and
\* the calls made
RECURSIVE ChairLoop(_, _, _)
ChairLoop(s, chairs, k) ==
    IF k > Len(chairs)
    THEN [seat |-> s, calls |-> <<>>]
    ELSE IF ChairInSeat(s, chairs[k])
    THEN LET rest == ChairLoop(update_chair_bb(s, chairs[k]), chairs, k + 1)
         IN  [seat |-> rest.seat,
              calls |-> << [fn |-> "update_chair_bb", arg |-> chairs[k]] >> \o rest.calls]
    ELSE ChairLoop(s, chairs, k + 1)

\* the body of the loop over the seats, for one seat
ProcessSeat(s, persons, chairs, seat_img) ==
    LET c == ChairLoop(s, chairs, 1)
    IN  IF PersonDetectedInSeat(s, persons)
        THEN [seat |-> person_detected(c.seat),
              calls |-> c.calls \o << [fn |-> "person_detected", arg |-> None] >>]
        ELSE [seat |-> no_person_detected(c.seat, seat_img),
              calls |-> c.calls \o << [fn |-> "no_person_detected", arg |-> None] >>]

\* seat_bb.csv: the table rectangle, then one rectangle per seat
SeatBoundingBoxes == << TableBB, SeatBB, <<100, 0, 200, 100>> >>

Person(y0, x0, y1, x1, score) ==
    [box |-> <<y0, x0, y1, x1>>, score |-> score, class |-> PERSON_CLASS]
Chair(y0, x0, y1, x1, score) ==
    [box |-> <<y0, x0, y1, x1>>, score |-> score, class |-> CHAIR_CLASS]

\* the detector outputs of the frames of the video
Frames ==
    { <<>>,
      << Person(0, 0, 100, 40, 90) >>,                 \* 40% of the first seat
      << Person(0, 0, 100, 30, 90) >>,                 \* exactly 30% of it
      << Person(0, 0, 100, 31, 90) >>,                 \* 31% of it
      << Person(0, 0, 100, 40, 70) >>,                 \* score not above 0.7
      << Person(0, 0, 100, 30, 90), Person(0, 60, 100, 100, 90) >>,
      << Person(0, 80, 100, 160, 90) >>,               \* 20% and 60%
      << Chair(60, 10, 100, 60, 90) >>,                \* a chair within the first seat
      << Chair(60, 10, 100, 60, 90), Person(0, 0, 100, 40, 90) >>,
      << Chair(60, 80, 100, 180, 90), Chair(60, 110, 100, 160, 80) >>,
      << Chair(60, 30, 100, 130, 90) >>,               \* 2800 of its 4000 in the first seat
      << Chair(60, 93, 69, 103, 90) >>,                \* 63 of its 90 in the first seat
      << [box |-> <<0, 0, 100, 40>>, score |-> 90, class |-> 3] >> }

\* frames processed before the video ends
MaxFrames == 2

InitMain ==
    /\ seats = [k \in 1 .. Len(SeatBoundingBoxes) - 1 |->
                    SeatInit(SeatBoundingBoxes[k + 1], SeatBoundingBoxes[1])]
    /\ called = [k \in 1 .. Len(SeatBoundingBoxes) - 1 |-> <<>>]
    /\ frame = NoFrame
    /\ nframes = 0
    /\ run = NoRun

ProcessFrame(boxes, imgs) ==
    LET detected_person_bounding_boxes == DetectedBoundingBoxes(boxes, PERSON_CLASS)
        detected_chair_bounding_boxes == DetectedBoundingBoxes(boxes, CHAIR_CLASS)
        done == [k \in DOMAIN seats |->
                    ProcessSeat(seats[k], detected_person_bounding_boxes,
                                detected_chair_bounding_boxes, imgs[k])]
    IN  /\ nframes < MaxFrames
        /\ seats' = [k \in DOMAIN seats |-> done[k].seat]
        /\ called' = [k \in DOMAIN seats |-> done[k].calls]
        /\ frame' = [boxes |-> boxes, imgs |-> imgs]
        /\ nframes' = nframes + 1
        /\ UNCHANGED run

NextMain ==
    \E boxes \in Frames, imgs \in [DOMAIN seats -> FrameImages] :
        ProcessFrame(boxes, imgs)

SpecMain == InitMain /\ [][NextMain]_vars

----------------------------------------------------------------------------
(* Construction: a Seat made from a seat rectangle and a table rectangle   *)
(* of seat_bb.csv, whatever the file holds.                                *)

XCoords == {0, 50, 100, 200}
YCoords == {0, 50, 100}

\* the rectangles of the file, the ones without width or height included
Rectangles ==
    {<<x0, y0, x1, y1>> : x0 \in XCoords, y0 \in YCoords,
                          x1 \in XCoords, y1 \in YCoords}

InitConstruct ==
    /\ seats = <<>>
    /\ called = <<>>
    /\ frame = NoFrame
    /\ nframes = 0
    /\ run = NoRun

\* seats.append(Seat(frame[y0:y1, x0:x1], seat_bounding_boxes[seat+1], table_bb))
Construct(bb_coordinates, table_bb) ==
    /\ seats = <<>>
    /\ seats' = << SeatInit(bb_coordinates, table_bb) >>
    /\ called' = << << [fn |-> "__init__", arg |-> <<bb_coordinates, table_bb>>] >> >>
    /\ UNCHANGED <<frame, nframes, run>>

NextConstruct ==
    \E bb_coordinates \in Rectangles, table_bb \in Rectangles :
        Construct(bb_coordinates, table_bb)

SpecConstruct == InitConstruct /\ [][NextConstruct]_vars

----------------------------------------------------------------------------
(* Properties.  Under Spec and SpecRuns there is one seat, seats[1].       *)

PersonDetectedCall == << [fn |-> "person_detected", arg |-> None] >>
NoPersonDetectedCall == << [fn |-> "no_person_detected", arg |-> None] >>

\* C1: the background model is updated only by a no_person_detected call
\* made while the seat is EMPTY with skip_counter = MAX_SKIP_FRAMES and
\* person_in_frame_counter = 0, and whose own leftover check found no
\* object; never by person_detected, never in OCCUPIED or ON_HOLD.
BackgroundUpdatedOnlyWhenEmptyAndClear ==
    [][ \A i \in DOMAIN seats :
          BackgroundUpdated(seats'[i]) =>
            /\ called'[i] = NoPersonDetectedCall
            /\ seats[i].status = "EMPTY"
            /\ seats[i].skip_counter = MAX_SKIP_FRAMES
            /\ seats[i].person_in_frame_counter = 0
            /\ Checked(seats'[i])
            /\ ~Found(seats'[i]) ]_vars

\* C1 witness: a no_person_detected call has just updated the background
BackgroundWasUpdated ==
    /\ BackgroundUpdated(seats[1])
    /\ called[1] = NoPersonDetectedCall
    /\ seats[1].status = "EMPTY"
    /\ seats[1].skip_counter = MAX_SKIP_FRAMES
    /\ seats[1].person_in_frame_counter = 0

\* C2: in a run of consecutive person_detected calls from a freshly
\* constructed seat (EMPTY, all counters 0), the status is EMPTY after each
\* of the first 99 calls and OCCUPIED after the 100th.
HundredthPersonSeenOccupies ==
    run.kind = "person_seen" =>
        /\ run.from.status = "EMPTY"
        /\ run.from.person_in_frame_counter = 0
        /\ run.from.skip_counter = 0
        /\ run.from.object_in_frame_counter = 0
        /\ run.n \in 1 .. 100
        /\ run.n < 100 => seats[1].status = "EMPTY"
        /\ run.n = 100 => seats[1].status = "OCCUPIED"

\* C2 witness: the 100th consecutive person_detected call has been made
HundredPersonSeenCalls ==
    /\ run.kind = "person_seen"
    /\ run.n = 100
    /\ seats[1].status = "OCCUPIED"

\* C3 as claimed: in a run of consecutive no_person_detected calls that
\* each find no leftover object, from any OCCUPIED state, the status is
\* OCCUPIED after each of the first 99 calls and EMPTY after the 100th.
OccupiedEmptiesOnHundredthAbsent ==
    (run.kind = "absent_no_object" /\ run.from.status = "OCCUPIED") =>
        /\ run.n < 100 => seats[1].status = "OCCUPIED"
        /\ run.n = 100 => seats[1].status = "EMPTY"

\* C3 amended: in such a run from an OCCUPIED state whose
\* person_in_frame_counter is k (1 <= k <= 100), the status is OCCUPIED
\* after each of the first k - 1 calls, with the counter lowered by one per
\* call, and EMPTY after the k-th call.
OccupiedEmptiesOnCounterthAbsent ==
    (run.kind = "absent_no_object" /\ run.from.status = "OCCUPIED") =>
        /\ run.from.person_in_frame_counter \in 1 .. 100
        /\ run.n \in 1 .. run.from.person_in_frame_counter
        /\ run.n < run.from.person_in_frame_counter =>
              /\ seats[1].status = "OCCUPIED"
              /\ seats[1].person_in_frame_counter
                    = run.from.person_in_frame_counter - run.n
        /\ run.n = run.from.person_in_frame_counter =>
              /\ seats[1].status = "EMPTY"
              /\ seats[1].person_in_frame_counter = 0

\* C3 witness: 100 such calls from an OCCUPIED seat with counter 100
HundredAbsentCallsFromOccupied ==
    /\ run.kind = "absent_no_object"
    /\ run.from.status = "OCCUPIED"
    /\ run.from.person_in_frame_counter = 100
    /\ run.n = 100
    /\ seats[1].status = "EMPTY"

\* C4: a no_person_detected call made in OCCUPIED whose leftover check
\* reports an object leaves the seat ON_HOLD, person_in_frame_counter
\* unchanged and object_in_frame_counter 0, whatever the counters were.
OccupiedWithObjectGoesOnHold ==
    [][ ( /\ called'[1] = NoPersonDetectedCall
          /\ seats[1].status = "OCCUPIED"
          /\ Found(seats'[1]) ) =>
            /\ seats'[1].status = "ON_HOLD"
            /\ seats'[1].person_in_frame_counter = seats[1].person_in_frame_counter
            /\ seats'[1].object_in_frame_counter = 0 ]_vars

\* C4 witness: the check of a call made in OCCUPIED, with the counter
\* already below 100, has found an object
OccupiedFoundObject ==
    /\ called[1] = NoPersonDetectedCall
    /\ \E k \in DOMAIN seats[1].bg_subtractor :
          /\ seats[1].bg_subtractor[k].fn = "get_leftover_object_mask"
          /\ seats[1].bg_subtractor[k].status = "OCCUPIED"
          /\ seats[1].bg_subtractor[k].found
    /\ seats[1].status = "ON_HOLD"
    /\ seats[1].person_in_frame_counter < 100

\* C5 as claimed: the person_detected call that brings the counter of an
\* ON_HOLD seat to 100 leaves the seat OCCUPIED.
OnHoldOccupiesWhenCounterReachesHundred ==
    [][ ( /\ called'[1] = PersonDetectedCall
          /\ seats[1].status = "ON_HOLD"
          /\ seats[1].person_in_frame_counter < 100
          /\ seats'[1].person_in_frame_counter = 100 ) =>
            seats'[1].status = "OCCUPIED" ]_vars

\* C5 amended: a person_detected call made in ON_HOLD with the counter
\* below 100 adds one to the counter and leaves the seat ON_HOLD, also when
\* the counter reaches 100 by it; the call made in ON_HOLD with the counter
\* at 100 leaves the seat OCCUPIED.
OnHoldOccupiesOnCallAfterHundred ==
    [][ ( /\ called'[1] = PersonDetectedCall
          /\ seats[1].status = "ON_HOLD" ) =>
            IF seats[1].person_in_frame_counter = 100
            THEN /\ seats'[1].status = "OCCUPIED"
                 /\ seats'[1].person_in_frame_counter = 100
            ELSE /\ seats'[1].status = "ON_HOLD"
                 /\ seats'[1].person_in_frame_counter
                       = seats[1].person_in_frame_counter + 1 ]_vars

\* C5 witness: a person_detected call has brought the counter to 100 and
\* the seat is still ON_HOLD
OnHoldAtHundred ==
    /\ called[1] = PersonDetectedCall
    /\ seats[1].status = "ON_HOLD"
    /\ seats[1].person_in_frame_counter = 100

\* C6: in a run of consecutive no_person_detected calls from an EMPTY state
\* with skip_counter = 0, each of the first 30 calls only adds one to
\* skip_counter: the status stays EMPTY, person_in_frame_counter and
\* object_in_frame_counter stay as they were, no leftover check is made and
\* the background is not updated.
DebounceOnlyCountsSkips ==
    run.kind = "person_absent" =>
        /\ run.from.status = "EMPTY" /\ run.from.skip_counter = 0
        /\ run.n \in 1 .. MAX_SKIP_FRAMES
        /\ seats[1].status = "EMPTY"
        /\ seats[1].skip_counter = run.n
        /\ seats[1].person_in_frame_counter = run.from.person_in_frame_counter
        /\ seats[1].object_in_frame_counter = run.from.object_in_frame_counter
        /\ ~Checked(seats[1])
        /\ ~BackgroundUpdated(seats[1])
        /\ seats[1].bg_subtractor = <<>>

\* C6 witness: 30 such calls, from a state with both other counters above 0
ThirtyDebouncedCalls ==
    /\ run.kind = "person_absent"
    /\ run.n = MAX_SKIP_FRAMES
    /\ run.from.person_in_frame_counter > 0
    /\ run.from.object_in_frame_counter > 0

\* C7 as claimed: in a run of consecutive no_person_detected calls whose
\* leftover check each reports an object, from any EMPTY state with
\* skip_counter = MAX_SKIP_FRAMES, the status is EMPTY after each of the
\* first 99 calls and ON_HOLD, with object_in_frame_counter 0, after the
\* 100th.
EmptyHoldsOnHundredthObject ==
    ( /\ run.kind = "absent_object"
      /\ run.from.status = "EMPTY"
      /\ run.from.skip_counter = MAX_SKIP_FRAMES ) =>
        /\ run.n < 100 => seats[1].status = "EMPTY"
        /\ run.n = 100 =>
              seats[1].status = "ON_HOLD" /\ seats[1].object_in_frame_counter = 0

\* C7 amended: the same, for the runs from an EMPTY state with skip_counter
\* = MAX_SKIP_FRAMES, person_in_frame_counter = 0 and
\* object_in_frame_counter = 0; the counter of objects is the number of
\* calls until the 100th call.
EmptyHoldsOnHundredthObjectFromZero ==
    ( /\ run.kind = "absent_object"
      /\ run.from.status = "EMPTY"
      /\ run.from.skip_counter = MAX_SKIP_FRAMES
      /\ run.from.person_in_frame_counter = 0
      /\ run.from.object_in_frame_counter = 0 ) =>
        /\ run.n \in 1 .. 100
        /\ run.n < 100 =>
              seats[1].status = "EMPTY" /\ seats[1].object_in_frame_counter = run.n
        /\ run.n = 100 =>
              seats[1].status = "ON_HOLD" /\ seats[1].object_in_frame_counter = 0

\* C7 witness: 100 such calls from object_in_frame_counter = 0
HundredObjectCallsFromZero ==
    /\ run.kind = "absent_object"
    /\ run.from.status = "EMPTY"
    /\ run.from.skip_counter = MAX_SKIP_FRAMES
    /\ run.from.person_in_frame_counter = 0
    /\ run.from.object_in_frame_counter = 0
    /\ run.n = 100
    /\ seats[1].status = "ON_HOLD"

\* C8: after any sequence of person_detected, no_person_detected and
\* update_chair_bb calls the three counters are >= 0, and a person_detected
\* call made in OCCUPIED never lowers person_in_frame_counter.
CountersNeverNegative ==
    /\ [](\A i \in DOMAIN seats :
            /\ seats[i].person_in_frame_counter >= 0
            /\ seats[i].skip_counter >= 0
            /\ seats[i].object_in_frame_counter >= 0)
    /\ [][ \A i \in DOMAIN seats :
            (called'[i] = PersonDetectedCall /\ seats[i].status = "OCCUPIED") =>
                seats'[i].person_in_frame_counter >= seats[i].person_in_frame_counter ]_vars

\* C8 witness: a no_person_detected call was made in ON_HOLD with the
\* person counter at 0, after an update_chair_bb call, and the counter is
\* still 0
DecrementAtZeroSkipped ==
    /\ called[1] = NoPersonDetectedCall
    /\ \E k \in DOMAIN seats[1].bg_subtractor :
          /\ seats[1].bg_subtractor[k].fn = "get_leftover_object_mask"
          /\ seats[1].bg_subtractor[k].status = "ON_HOLD"
    /\ seats[1].status = "ON_HOLD"
    /\ seats[1].person_in_frame_counter = 0
    /\ seats[1].current_chair_bb # None

\* the detected person boxes of the latest frame that overlap the seat by
\* more than 0.3 of the seat's area
PersonBoxesOver(s) ==
    {k \in DOMAIN frame.boxes :
        /\ frame.boxes[k].class = PERSON_CLASS
        /\ frame.boxes[k].score > OBJ_DETECTION_THRESHOLD
        /\ LET b == frame.boxes[k].box
           IN  10 * rectangle_overlap(s.bb_coordinates, <<b[2], b[1], b[4], b[3]>>)
                   > 3 * s.bb_area}

PersonCalls(i) ==
    {k \in DOMAIN called[i] :
        called[i][k].fn \in {"person_detected", "no_person_detected"}}

\* C9: in every processed frame main calls exactly one of person_detected
\* and no_person_detected on every seat, once: person_detected if a
\* detected person box overlaps the seat by more than 0.3 of the seat's
\* area, no_person_detected otherwise.
OnePersonCallPerSeatAndFrame ==
    nframes > 0 =>
        \A i \in DOMAIN seats :
            /\ Cardinality(PersonCalls(i)) = 1
            /\ \A k \in PersonCalls(i) :
                  called[i][k].fn = (IF PersonBoxesOver(seats[i]) # {}
                                     THEN "person_detected"
                                     ELSE "no_person_detected")

\* C9 witness: a frame whose only person box covers 40% of the first seat
\* has led to person_detected on that seat and no_person_detected on the
\* other
PersonSeenAtFortyPercent ==
    /\ nframes > 0
    /\ frame.boxes = << Person(0, 0, 100, 40, 90) >>
    /\ called[1] = PersonDetectedCall
    /\ called[2] = NoPersonDetectedCall

\* C10: every leftover check uses the minimum blob area 2500 when made in
\* OCCUPIED or ON_HOLD and 3750 when made in EMPTY: it reports an object
\* exactly if the tabletop holds a blob of at least that area.
LeftoverThresholdByStatus ==
    \A i \in DOMAIN seats : \A k \in DOMAIN seats[i].bg_subtractor :
        LET e == seats[i].bg_subtractor[k]
        IN  e.fn = "get_leftover_object_mask" =>
              e.found = (\E a \in e.img :
                            a >= (IF e.status = "EMPTY"
                                  THEN CONTOUR_AREA_THRESHOLD_EMPTY
                                  ELSE CONTOUR_AREA_THRESHOLD))

\* the detected chair boxes of the latest frame, in the detector's order
ChairBoxesOfFrame ==
    LET IsChair(d) == d.class = CHAIR_CLASS /\ d.score > OBJ_DETECTION_THRESHOLD
        kept == SelectSeq(frame.boxes, IsChair)
    IN  [k \in DOMAIN kept |->
            <<kept[k].box[2], kept[k].box[1], kept[k].box[4], kept[k].box[3]>>]

\* the boxes of the update_chair_bb calls made on seat i in the latest frame
ChairCalls(i) ==
    LET IsChairCall(c) == c.fn = "update_chair_bb"
        kept == SelectSeq(called[i], IsChairCall)
    IN  [k \in DOMAIN kept |-> kept[k].arg]

\* C11: in every processed frame, on every seat, main calls update_chair_bb
\* with exactly the detected chair boxes whose intersection with the seat's
\* region is at least 70% of the chair box's own area, exactly 70% included.
ChairCalledFromSeventyPercent ==
    nframes > 0 =>
        \A i \in DOMAIN seats :
            LET AtLeastSeventy(b) ==
                    10 * rectangle_overlap(seats[i].bb_coordinates, b)
                        >= 7 * rectangle_area(b)
            IN  ChairCalls(i) = SelectSeq(ChairBoxesOfFrame, AtLeastSeventy)

\* a rectangle with positive width and height
HasExtent(r) == r[3] > r[1] /\ r[4] > r[2]

\* the seat i has just been made, and the rectangles it was made from
Constructed(i) ==
    /\ i \in DOMAIN seats
    /\ Len(called[i]) = 1
    /\ called[i][1].fn = "__init__"
SeatRectangle(i) == called[i][1].arg[1]
TableRectangle(i) == called[i][1].arg[2]

\* C12: the table_bb of a Seat made from a seat rectangle and a table
\* rectangle that both have positive width and height, overlapping or not,
\* has x1 >= x0, y1 >= y0, x0 >= 0 and y0 >= 0, and when the two rectangles
\* do not overlap it is empty: the table image cut by it holds nothing.
TableSubregionNeverNegative ==
    ( /\ Constructed(1)
      /\ HasExtent(SeatRectangle(1))
      /\ HasExtent(TableRectangle(1)) ) =>
        LET t == seats[1].table_bb
        IN  /\ t[3] >= t[1]
            /\ t[4] >= t[2]
            /\ t[1] >= 0
            /\ t[2] >= 0
            /\ rectangle_overlap(SeatRectangle(1), TableRectangle(1)) = 0 =>
                  /\ t[3] = t[1] \/ t[4] = t[2]
                  /\ \A seat_img \in Images :
                        get_table_image(seats[1], seat_img) = {}

\* C13: no Seat results from a seat rectangle or a table rectangle without
\* positive width and height: a Seat that has been made (EMPTY, counters
\* and table_bb set) was made from two rectangles that have both.
NoSeatFromRectangleWithoutExtent ==
    ( /\ Constructed(1)
      /\ seats[1].status = "EMPTY"
      /\ seats[1].person_in_frame_counter = 0
      /\ seats[1].skip_counter = 0
      /\ seats[1].object_in_frame_counter = 0
      /\ seats[1].table_bb = CropToSeat(SeatRectangle(1), TableRectangle(1)) ) =>
        HasExtent(SeatRectangle(1)) /\ HasExtent(TableRectangle(1))

\* the latest call on seat 1 made a leftover check while the seat was in
\* the given status
CheckedIn(status) ==
    \E k \in DOMAIN seats[1].bg_subtractor :
        /\ seats[1].bg_subtractor[k].fn = "get_leftover_object_mask"
        /\ seats[1].bg_subtractor[k].status = status

\* C14: a no_person_detected call made in ON_HOLD makes a leftover check
\* and lowers person_in_frame_counter by 1 when it is above 0, whatever the
\* check found; the seat goes EMPTY exactly if the check found no object
\* and the counter is 0 after that, and stays ON_HOLD otherwise, so always
\* when the check found an object.
OnHoldAbsentLowersAndEmptiesOnlyWhenClear ==
    [][ (called'[1] = NoPersonDetectedCall /\ seats[1].status = "ON_HOLD") =>
          LET before == seats[1].person_in_frame_counter
              after == IF before > 0 THEN before - 1 ELSE before
          IN  /\ Checked(seats'[1])
              /\ seats'[1].person_in_frame_counter = after
              /\ seats'[1].status =
                    (IF ~Found(seats'[1]) /\ after = 0 THEN "EMPTY" ELSE "ON_HOLD")
              /\ Found(seats'[1]) => seats'[1].status = "ON_HOLD" ]_vars

\* C14 witness: a no_person_detected call made in ON_HOLD found an object
\* and left the counter at 0: the seat is still ON_HOLD
OnHoldKeptByObjectAtZero ==
    /\ called[1] = NoPersonDetectedCall
    /\ CheckedIn("ON_HOLD")
    /\ Found(seats[1])
    /\ seats[1].person_in_frame_counter = 0
    /\ seats[1].status = "ON_HOLD"

\* C15: immediately after any call that changes the status to EMPTY, from
\* OCCUPIED or from ON_HOLD, person_in_frame_counter, skip_counter and
\* object_in_frame_counter are all 0.
CountersZeroOnBecomingEmpty ==
    [][ \A i \in DOMAIN seats :
          (seats[i].status # "EMPTY" /\ seats'[i].status = "EMPTY") =>
            /\ seats'[i].person_in_frame_counter = 0
            /\ seats'[i].skip_counter = 0
            /\ seats'[i].object_in_frame_counter = 0 ]_vars

\* C15 witness: a call made in ON_HOLD has just left the seat EMPTY
OnHoldBecameEmpty ==
    /\ called[1] = NoPersonDetectedCall
    /\ CheckedIn("ON_HOLD")
    /\ seats[1].status = "EMPTY"
    /\ seats[1].skip_counter = 0

\* the chair box bbox cut to the rectangle of seat s, in the seat's own
\* coordinates
ClippedToSeat(s, bbox) ==
    LET r == s.bb_coordinates
    IN  << Max(r[1], bbox[1]) - r[1], Max(r[2], bbox[2]) - r[2],
           Min(r[3], bbox[3]) - r[1], Min(r[4], bbox[4]) - r[2] >>

\* C16: an update_chair_bb(bbox) call sets current_chair_bb to bbox cut to
\* the seat's rectangle in seat-local coordinates; it sets empty_chair_bb
\* to the same value if the status at the call is EMPTY and leaves it as it
\* was otherwise; it leaves the status and the three counters unchanged.
UpdateChairBBEffects ==
    [][ \A bbox \in ChairBoxes :
          called'[1] = << [fn |-> "update_chair_bb", arg |-> bbox] >> =>
            /\ seats'[1].current_chair_bb = ClippedToSeat(seats[1], bbox)
            /\ seats'[1].empty_chair_bb =
                  (IF seats[1].status = "EMPTY"
                   THEN ClippedToSeat(seats[1], bbox)
                   ELSE seats[1].empty_chair_bb)
            /\ seats'[1].status = seats[1].status
            /\ seats'[1].person_in_frame_counter = seats[1].person_in_frame_counter
            /\ seats'[1].skip_counter = seats[1].skip_counter
            /\ seats'[1].object_in_frame_counter = seats[1].object_in_frame_counter ]_vars

\* C16 witness: an update_chair_bb call was made on a seat that had seen no
\* chair while EMPTY and is not EMPTY now
ChairFirstSeenWhenNotEmpty ==
    /\ \E bbox \in ChairBoxes :
          called[1] = << [fn |-> "update_chair_bb", arg |-> bbox] >>
    /\ seats[1].status # "EMPTY"
    /\ seats[1].current_chair_bb # None
    /\ seats[1].empty_chair_bb = None

\* C17: in every reachable state 0 <= person_in_frame_counter <= 100,
\* 0 <= skip_counter <= 30 and 0 <= object_in_frame_counter <= 99; OCCUPIED
\* implies 1 <= person_in_frame_counter; EMPTY implies
\* person_in_frame_counter <= 99; object_in_frame_counter > 0 implies EMPTY.
CountersBoundedByStatus ==
    \A i \in DOMAIN seats :
        /\ seats[i].person_in_frame_counter \in 0 .. 100
        /\ seats[i].skip_counter \in 0 .. 30
        /\ seats[i].object_in_frame_counter \in 0 .. 99
        /\ seats[i].status = "OCCUPIED" => seats[i].person_in_frame_counter >= 1
        /\ seats[i].status = "EMPTY" => seats[i].person_in_frame_counter <= 99
        /\ seats[i].object_in_frame_counter > 0 => seats[i].status = "EMPTY"

\* C17 witness: an EMPTY seat at the top of all three ranges
EmptyAtTopOfRanges ==
    /\ seats[1].status = "EMPTY"
    /\ seats[1].person_in_frame_counter = 99
    /\ seats[1].skip_counter = 30
    /\ seats[1].object_in_frame_counter = 99

\* C18: the status changes from EMPTY to ON_HOLD only on a
\* no_person_detected call whose leftover check reports an object, made
\* with skip_counter = 30 and person_in_frame_counter = 0, and only when
\* that check is the 100th in a row to report an object since the seat
\* last became EMPTY; a check that reports no object sets
\* object_in_frame_counter to 0, and a person_detected call that leaves the
\* seat EMPTY leaves object_in_frame_counter as it was.
EmptyHoldsOnlyAfterHundredObjectChecks ==
    /\ [][ (seats[1].status = "EMPTY" /\ seats'[1].status = "ON_HOLD") =>
              /\ called'[1] = NoPersonDetectedCall
              /\ Checked(seats'[1])
              /\ Found(seats'[1])
              /\ seats[1].skip_counter = 30
              /\ seats[1].person_in_frame_counter = 0
              /\ run.checks = 99
              /\ run'.checks = 100 ]_vars
    /\ [][ ( /\ called'[1] = NoPersonDetectedCall
              /\ seats[1].status = "EMPTY"
              /\ Checked(seats'[1])
              /\ ~Found(seats'[1]) ) =>
                seats'[1].object_in_frame_counter = 0 ]_vars
    /\ [][ ( /\ called'[1] = PersonDetectedCall
              /\ seats[1].status = "EMPTY"
              /\ seats'[1].status = "EMPTY" ) =>
                seats'[1].object_in_frame_counter
                    = seats[1].object_in_frame_counter ]_vars

\* C18 witness: the 100th check in a row to report an object has just left
\* the seat ON_HOLD
HundredthObjectCheckHolds ==
    /\ called[1] = NoPersonDetectedCall
    /\ CheckedIn("EMPTY")
    /\ Found(seats[1])
    /\ run.checks = 100
    /\ seats[1].status = "ON_HOLD"

\* C19: after 101 or more person_detected calls in a row, from whatever
\* state they started in, the seat is OCCUPIED with
\* person_in_frame_counter = 100; a person_detected call made in OCCUPIED
\* leaves the seat OCCUPIED with the counter at 100; a person_detected
\* call never changes the status to EMPTY or ON_HOLD.
PersonSeenOccupiesWithinHundredAndOne ==
    /\ []( (run.kind = "person_seen" /\ run.n >= 101) =>
              /\ seats[1].status = "OCCUPIED"
              /\ seats[1].person_in_frame_counter = 100 )
    /\ [][ (called'[1] = PersonDetectedCall /\ seats[1].status = "OCCUPIED") =>
              /\ seats'[1].status = "OCCUPIED"
              /\ seats'[1].person_in_frame_counter = 100 ]_vars
    /\ [][ called'[1] = PersonDetectedCall =>
              \/ seats'[1].status = seats[1].status
              \/ /\ seats'[1].status = "OCCUPIED"
                 /\ seats'[1].person_in_frame_counter = 100 ]_vars

\* C19 witness: after 100 person_detected calls in a row the seat is still
\* ON_HOLD, its counter at 100: the 101st call is needed
HundredSeenStillOnHold ==
    /\ run.kind = "person_seen"
    /\ run.n = 100
    /\ seats[1].status = "ON_HOLD"
    /\ seats[1].person_in_frame_counter = 100

\* C20 as claimed: after 100 or more no_person_detected calls in a row
\* with no leftover object, from whatever state they started in, the seat
\* is EMPTY with person_in_frame_counter = 0 and object_in_frame_counter =
\* 0; a no_person_detected call never changes the status to OCCUPIED.
AbsentClearEmptiesCountersWithinHundred ==
    /\ []( (run.kind = "absent_clear" /\ run.n >= 100) =>
              /\ seats[1].status = "EMPTY"
              /\ seats[1].person_in_frame_counter = 0
              /\ seats[1].object_in_frame_counter = 0 )
    /\ [][ (called'[1] = NoPersonDetectedCall /\ seats'[1].status = "OCCUPIED") =>
              seats[1].status = "OCCUPIED" ]_vars

\* C20 amended: after 100 or more such calls in a row the seat is EMPTY,
\* and after 130 or more its person_in_frame_counter and
\* object_in_frame_counter are 0; such a call leaves an EMPTY seat EMPTY,
\* and EMPTY with both counters 0 once it is so; a call that changes the
\* status to EMPTY leaves both counters 0; a no_person_detected call never
\* changes the status to OCCUPIED.
AbsentClearEmptiesWithinHundred ==
    /\ []( (run.kind = "absent_clear" /\ run.n >= 100) =>
              seats[1].status = "EMPTY" )
    /\ []( (run.kind = "absent_clear" /\ run.n >= 130) =>
              /\ seats[1].person_in_frame_counter = 0
              /\ seats[1].object_in_frame_counter = 0 )
    /\ [][ (run'.kind = "absent_clear" /\ seats[1].status = "EMPTY") =>
              /\ seats'[1].status = "EMPTY"
              /\ ( /\ seats[1].person_in_frame_counter = 0
                    /\ seats[1].object_in_frame_counter = 0 ) =>
                    /\ seats'[1].person_in_frame_counter = 0
                    /\ seats'[1].object_in_frame_counter = 0 ]_vars
    /\ [][ ( /\ run'.kind = "absent_clear"
              /\ seats[1].status # "EMPTY"
              /\ seats'[1].status = "EMPTY" ) =>
                /\ seats'[1].person_in_frame_counter = 0
                /\ seats'[1].object_in_frame_counter = 0 ]_vars
    /\ [][ (called'[1] = NoPersonDetectedCall /\ seats'[1].status = "OCCUPIED") =>
              seats[1].status = "OCCUPIED" ]_vars

\* C20 witness: the 100th such call in a row has just changed an ON_HOLD
\* seat to EMPTY
HundredthAbsentClearEmpties ==
    /\ run.kind = "absent_clear"
    /\ run.n = 100
    /\ called[1] = NoPersonDetectedCall
    /\ CheckedIn("ON_HOLD")
    /\ seats[1].status = "EMPTY"

====
